---- MODULE Spec2Model ----
(***************************************************************************)
(* A model of src/hacking.rs: push-based observables (range, value, map,   *)
(* take, merge_all, flat_map) driving observers through next/completed.    *)
(* Every subscribe/next/completed body is executed on an explicit call     *)
(* stack, one stack per thread, so that the order of the calls that reach  *)
(* each observer is part of the state.                                     *)
(***************************************************************************)
EXTENDS Integers, Sequences, FiniteSets, TLC

VARIABLES
    program,    \* the subscriptions the caller performs, in order
    observers,  \* the observer objects (and mutex cells) built so far, by id
    hist,       \* per observer id: the calls it received and the directives it returned
    stacks,     \* per thread: its call stack of frames
    ret,        \* per thread: the directive returned by the last next call
    terminals   \* ids of the terminal observers, one per subscription, in order

vars == <<program, observers, hist, stacks, ret, terminals>>

-----------------------------------------------------------------------------
(* Bounds of the explored inputs. *)
MaxStart == 2
MaxEnd == 3
MaxTake == 2
MaxStopAfter == 2
InnerLen == 2

-----------------------------------------------------------------------------
(* IterationResult *)
Stop == "Stop"
Continue == "Continue"

(* Observables, as the constructor functions and combinator methods build them. *)
range(start, end) == [op |-> "range", start |-> start, end |-> end]
value(v) == [op |-> "value", value |-> v]
map(source, f) == [op |-> "map", f |-> f, source |-> source]
take(source, count) == [op |-> "take", count |-> count, source |-> source]
merge_all(source) == [op |-> "merge_all", source |-> source]
flat_map(source, f) == merge_all(map(source, f))

(* A caller-supplied observable whose subscribe hands the subscription of its *)
(* source to a new thread and returns at once.                                 *)
spawned(source) == [op |-> "spawned", source |-> source]

(* The closures handed to map and flat_map. *)
Apply(f, a) ==
    CASE f = "add5" -> a + 5
      [] f = "double" -> a * 2
      [] f = "value_times10" -> value(a * 10)
      [] f = "range_times10" -> range(a * 10, a * 10 + InnerLen)
      [] f = "spawned_range" -> spawned(range(a * 10, a * 10 + InnerLen))
      [] f = "nested_streams" ->
            IF a = 0
            THEN spawned(value(value(a * 10)))
            ELSE value(spawned(value(a * 10)))

(* The pipeline of main. *)
MainPipeline == map(take(flat_map(range(0, 10), "value_times10"), 3), "add5")

-----------------------------------------------------------------------------
(* Call stack. *)
Frame(fn, self, arg) == [fn |-> fn, pc |-> 0, self |-> self, arg |-> arg, loc |-> 0]

Threads == DOMAIN stacks
Running(t) == Len(stacks[t]) > 0
Top(t) == stacks[t][Len(stacks[t])]

At(t, fn) == Running(t) /\ Top(t).fn = fn
AtObserver(t, fn, kind) == At(t, fn) /\ observers[Top(t).self].kind = kind
AtObservable(t, op) == At(t, "subscribe") /\ Top(t).self.op = op

SetTop(s, pc, loc) == [s EXCEPT ![Len(s)] = [@ EXCEPT !.pc = pc, !.loc = loc]]
Pop(s) == SubSeq(s, 1, Len(s) - 1)

\* the running frame moves to pc/loc and calls frame
Call(t, pc, loc, frame) ==
    stacks' = [stacks EXCEPT ![t] = Append(SetTop(@, pc, loc), frame)]
\* the running frame returns to its caller
Return(t) == stacks' = [stacks EXCEPT ![t] = Pop(@)]

NewId == Len(observers) + 1
Log(h, id, e, v) == [h EXCEPT ![id] = Append(@, [e |-> e, v |-> v])]

-----------------------------------------------------------------------------
(* main: subscribes each pipeline of the program to a fresh terminal observer. *)
TerminalObserver(consumer) ==
    CASE consumer = 0 -> [kind |-> "Anonymous"]
      [] consumer > 0 -> [kind |-> "StopAfter", limit |-> consumer, seen |-> 0]
      [] consumer < 0 -> [kind |-> "Counting", counter |-> 0]

Main(t) ==
    /\ At(t, "main")
    /\ LET f == Top(t) IN
       IF f.loc < Len(program)
       THEN /\ observers' = Append(observers, TerminalObserver(program[f.loc + 1].consumer))
            /\ hist' = Append(hist, <<>>)
            /\ terminals' = Append(terminals, NewId)
            /\ Call(t, 0, f.loc + 1, Frame("subscribe", program[f.loc + 1].source, NewId))
       ELSE /\ Return(t)
            /\ UNCHANGED <<observers, hist, terminals>>
    /\ UNCHANGED <<program, ret>>

-----------------------------------------------------------------------------
(* RangeObservable::subscribe *)
\* mutant: the directive of the observer is not looked at
RangeNextStateIgnoresStop(self, state, result) == state + 1

RangeNextState(self, state, result) ==
    IF result = Stop THEN self.end ELSE state + 1

\* mutant: the loop guard off by one
RangeBreakOffByOne(self, state) == state > self.end

RangeBreak(self, state) == state >= self.end

RangeSubscribe(t) ==
    /\ AtObservable(t, "range")
    /\ LET f == Top(t) IN
       CASE f.pc = 0 ->
              \* let mut state = self.start.clone(); first observer.next(state)
              Call(t, 1, f.self.start, Frame("next", f.arg, f.self.start))
         [] f.pc = 1 ->
              LET state == RangeNextState(f.self, f.loc, ret[t]) IN
              IF RangeBreak(f.self, state)
              THEN Call(t, 2, state, Frame("completed", f.arg, 0))
              ELSE Call(t, 1, state, Frame("next", f.arg, state))
         [] f.pc = 2 -> Return(t)
    /\ UNCHANGED <<program, observers, hist, ret, terminals>>

(* ValueObservable::subscribe *)
ValueSubscribe(t) ==
    /\ AtObservable(t, "value")
    /\ LET f == Top(t) IN
       CASE f.pc = 0 -> Call(t, 1, 0, Frame("next", f.arg, f.self.value))
         [] f.pc = 1 -> Call(t, 2, 0, Frame("completed", f.arg, 0))
         [] f.pc = 2 -> Return(t)
    /\ UNCHANGED <<program, observers, hist, ret, terminals>>

(* MapObservable::subscribe *)
MapObserver(f, observer) == [kind |-> "Map", f |-> f, observer |-> observer]

MapSubscribe(t) ==
    /\ AtObservable(t, "map")
    /\ LET f == Top(t) IN
       IF f.pc = 0
       THEN /\ observers' = Append(observers, MapObserver(f.self.f, f.arg))
            /\ hist' = Append(hist, <<>>)
            /\ Call(t, 1, 0, Frame("subscribe", f.self.source, NewId))
       ELSE /\ Return(t)
            /\ UNCHANGED <<observers, hist>>
    /\ UNCHANGED <<program, ret, terminals>>

(* TakeObservable::subscribe *)
TakeObserver(count, observer) ==
    [kind |-> "Take", remaining |-> count, observer |-> observer]

\* mutant: one budget kept across subscriptions (what the latest TakeObserver has left)
TakeBudgetShared(self, obs) ==
    LET earlier == {i \in DOMAIN obs : obs[i].kind = "Take"} IN
    IF earlier = {}
    THEN self.count
    ELSE obs[CHOOSE i \in earlier : \A j \in earlier : j <= i].remaining

\* remaining: self.count.clone(), whatever observers exist already
TakeBudget(self, obs) == self.count

TakeSubscribe(t) ==
    /\ AtObservable(t, "take")
    /\ LET f == Top(t) IN
       IF f.pc = 0
       THEN /\ observers' = Append(observers, TakeObserver(TakeBudget(f.self, observers), f.arg))
            /\ hist' = Append(hist, <<>>)
            /\ Call(t, 1, 0, Frame("subscribe", f.self.source, NewId))
       ELSE /\ Return(t)
            /\ UNCHANGED <<observers, hist>>
    /\ UNCHANGED <<program, ret, terminals>>

(* MergeAllObservable::subscribe: Arc::new(Mutex::new(observer)) is the cell *)
(* NewId, the MergeAllObserver holding it is NewId + 1.                      *)
MutexCell(observer) == [kind |-> "Mutex", observer |-> observer, holder |-> 0]
MergeAllObserver(mutex) == [kind |-> "MergeAll", observer |-> mutex]

MergeAllSubscribe(t) ==
    /\ AtObservable(t, "merge_all")
    /\ LET f == Top(t) IN
       IF f.pc = 0
       THEN /\ observers' = observers \o <<MutexCell(f.arg), MergeAllObserver(NewId)>>
            /\ hist' = hist \o <<<<>>, <<>>>>
            /\ Call(t, 1, 0, Frame("subscribe", f.self.source, NewId + 1))
       ELSE /\ Return(t)
            /\ UNCHANGED <<observers, hist>>
    /\ UNCHANGED <<program, ret, terminals>>

(* The caller's thread-spawning observable: the source is subscribed on a new *)
(* thread, the spawning subscribe returns.                                    *)
SpawnedSubscribe(t) ==
    /\ AtObservable(t, "spawned")
    /\ LET f == Top(t) IN
       /\ stacks' = Append([stacks EXCEPT ![t] = Pop(@)],
                           <<Frame("subscribe", f.self.source, f.arg)>>)
       /\ ret' = Append(ret, Continue)
    /\ UNCHANGED <<program, observers, hist, terminals>>

-----------------------------------------------------------------------------
(* Observers.  Each next logs the call on entry and the directive it returns; *)
(* each completed logs the call.                                              *)

\* next returns directive d to its caller
ReturnNext(t, h, d) ==
    /\ hist' = Log(h, Top(t).self, d, 0)
    /\ ret' = [ret EXCEPT ![t] = d]
    /\ Return(t)

(* AnonymousObserver *)
AnonymousNext(t) ==
    /\ AtObserver(t, "next", "Anonymous")
    /\ ReturnNext(t, Log(hist, Top(t).self, "next", Top(t).arg), Continue)
    /\ UNCHANGED <<program, observers, terminals>>

AnonymousCompleted(t) ==
    /\ AtObserver(t, "completed", "Anonymous")
    /\ hist' = Log(hist, Top(t).self, "completed", 0)
    /\ Return(t)
    /\ UNCHANGED <<program, observers, ret, terminals>>

(* A caller's observer that collects items and returns Stop from the *)
(* limit-th next on.                                                 *)
StopAfterNext(t) ==
    /\ AtObserver(t, "next", "StopAfter")
    /\ LET id == Top(t).self
           seen == observers[id].seen + 1 IN
       /\ observers' = [observers EXCEPT ![id].seen = seen]
       /\ ReturnNext(t, Log(hist, id, "next", Top(t).arg),
                     IF seen >= observers[id].limit THEN Stop ELSE Continue)
    /\ UNCHANGED <<program, terminals>>

StopAfterCompleted(t) ==
    /\ AtObserver(t, "completed", "StopAfter")
    /\ hist' = Log(hist, Top(t).self, "completed", 0)
    /\ Return(t)
    /\ UNCHANGED <<program, observers, ret, terminals>>

(* A caller's observer that counts its items in a plain field: next reads *)
(* the counter, then writes it back incremented, and returns Continue.   *)
CountingNext(t) ==
    /\ AtObserver(t, "next", "Counting")
    /\ LET f == Top(t) IN
       IF f.pc = 0
       THEN /\ hist' = Log(hist, f.self, "next", f.arg)
            /\ stacks' = [stacks EXCEPT ![t] = SetTop(@, 1, observers[f.self].counter)]
            /\ UNCHANGED <<observers, ret>>
       ELSE /\ observers' = [observers EXCEPT ![f.self].counter = f.loc + 1]
            /\ ReturnNext(t, hist, Continue)
    /\ UNCHANGED <<program, terminals>>

CountingCompleted(t) ==
    /\ AtObserver(t, "completed", "Counting")
    /\ hist' = Log(hist, Top(t).self, "completed", 0)
    /\ Return(t)
    /\ UNCHANGED <<program, observers, ret, terminals>>

(* MapObserver *)
\* mutant: val is forwarded as it came wherever the closure keeps the item type
MapNextValueUnmapped(f, val) ==
    IF f \in {"add5", "double"} THEN val ELSE Apply(f, val)

MapNextValue(f, val) == Apply(f, val)

MapNext(t) ==
    /\ AtObserver(t, "next", "Map")
    /\ LET f == Top(t)
           self == observers[f.self] IN
       IF f.pc = 0
       THEN /\ hist' = Log(hist, f.self, "next", f.arg)
            /\ Call(t, 1, 0, Frame("next", self.observer, MapNextValue(self.f, f.arg)))
            /\ ret' = ret
       ELSE ReturnNext(t, hist, ret[t])
    /\ UNCHANGED <<program, observers, terminals>>

MapCompleted(t) ==
    /\ AtObserver(t, "completed", "Map")
    /\ LET f == Top(t) IN
       IF f.pc = 0
       THEN /\ hist' = Log(hist, f.self, "completed", 0)
            /\ Call(t, 1, 0, Frame("completed", observers[f.self].observer, 0))
       ELSE /\ Return(t)
            /\ hist' = hist
    /\ UNCHANGED <<program, observers, ret, terminals>>

(* Mutex::lock blocks until no thread holds the guard. *)
\* mutant: the guard is never dropped
UnlockForgotten(obs, m) == obs

\* mutant: the consumer is reached without waiting for the guard
LockFreeAlways(m) == TRUE

LockFree(m) == observers[m].holder = 0
Lock(obs, m, t) == [obs EXCEPT ![m].holder = t]
Unlock(obs, m) == [obs EXCEPT ![m].holder = 0]

\* mutant: the item is taken from the inner stream and not handed on
SharedNextUnforwarded(t) ==
    /\ AtObserver(t, "next", "Shared")
    /\ ReturnNext(t, Log(hist, Top(t).self, "next", Top(t).arg), Continue)
    /\ UNCHANGED <<program, observers, terminals>>

(* SharedObserver: the guard lives for the one statement, i.e. the one call. *)
SharedNext(t) ==
    /\ AtObserver(t, "next", "Shared")
    /\ LET f == Top(t)
           m == observers[f.self].observer IN
       IF f.pc = 0
       THEN /\ LockFree(m)
            /\ observers' = Lock(observers, m, t)
            /\ hist' = Log(hist, f.self, "next", f.arg)
            /\ Call(t, 1, 0, Frame("next", observers[m].observer, f.arg))
            /\ ret' = ret
       ELSE /\ observers' = Unlock(observers, m)
            /\ ReturnNext(t, hist, ret[t])
    /\ UNCHANGED <<program, terminals>>

\* mutant: the completed of an inner stream ends at its handle
SharedCompletedUnforwarded(t) ==
    /\ AtObserver(t, "completed", "Shared")
    /\ hist' = Log(hist, Top(t).self, "completed", 0)
    /\ Return(t)
    /\ UNCHANGED <<program, observers, ret, terminals>>

SharedCompleted(t) ==
    /\ AtObserver(t, "completed", "Shared")
    /\ LET f == Top(t)
           m == observers[f.self].observer IN
       IF f.pc = 0
       THEN /\ LockFree(m)
            /\ observers' = Lock(observers, m, t)
            /\ hist' = Log(hist, f.self, "completed", 0)
            /\ Call(t, 1, 0, Frame("completed", observers[m].observer, 0))
       ELSE /\ observers' = Unlock(observers, m)
            /\ Return(t)
            /\ hist' = hist
    /\ UNCHANGED <<program, ret, terminals>>

(* MergeAllObserver *)
SharedObserver(mutex) == [kind |-> "Shared", observer |-> mutex]

\* mutant: the directive left by the inner subscription is handed to the outer source
MergeAllNextResultOfInner(inner) == inner

MergeAllNextResult(inner) == Continue

MergeAllNext(t) ==
    /\ AtObserver(t, "next", "MergeAll")
    /\ LET f == Top(t) IN
       IF f.pc = 0
       THEN /\ observers' = Append(observers, SharedObserver(observers[f.self].observer))
            /\ hist' = Append(Log(hist, f.self, "next", f.arg), <<>>)
            /\ Call(t, 1, 0, Frame("subscribe", f.arg, NewId))
            /\ ret' = ret
       ELSE /\ ReturnNext(t, hist, MergeAllNextResult(ret[t]))
            /\ observers' = observers
    /\ UNCHANGED <<program, terminals>>

\* mutant: completed is held back until the inner subscriptions have finished
CompletedReadyAfterInner(m, t) ==
    LockFree(m) /\ \A u \in Threads \ {t} : ~Running(u)

\* self.observer.lock(): nothing but the guard is waited for
CompletedReady(m, t) == LockFree(m)

MergeAllCompleted(t) ==
    /\ AtObserver(t, "completed", "MergeAll")
    /\ LET f == Top(t)
           m == observers[f.self].observer IN
       IF f.pc = 0
       THEN /\ CompletedReady(m, t)
            /\ observers' = Lock(observers, m, t)
            /\ hist' = Log(hist, f.self, "completed", 0)
            /\ Call(t, 1, 0, Frame("completed", observers[m].observer, 0))
       ELSE /\ observers' = Unlock(observers, m)
            /\ Return(t)
            /\ hist' = hist
    /\ UNCHANGED <<program, ret, terminals>>

(* TakeObserver *)
\* mutant: the item is forwarded whatever is left of the budget
TakeForwardsAlways(remaining) == TRUE

\* mutant: the test of the budget admits 0
TakeForwardsAtZero(remaining) == remaining >= 0

TakeForwards(remaining) == remaining > 0

\* mutant: the budget is not decremented
TakeRemainingNoDecrement(remaining, result) ==
    IF result = Stop THEN 0 ELSE remaining

TakeRemaining(remaining, result) ==
    IF result = Stop THEN 0 ELSE remaining - 1

TakeDirective(remaining) == IF remaining > 0 THEN Continue ELSE Stop

\* the tail of TakeObserver::next, once result is known
TakeFinish(t, h, result) ==
    LET id == Top(t).self
        remaining == TakeRemaining(observers[id].remaining, result) IN
    /\ observers' = [observers EXCEPT ![id].remaining = remaining]
    /\ ReturnNext(t, h, TakeDirective(remaining))

TakeNext(t) ==
    /\ AtObserver(t, "next", "Take")
    /\ LET f == Top(t)
           self == observers[f.self] IN
       IF f.pc = 0
       THEN IF TakeForwards(self.remaining)
            THEN /\ hist' = Log(hist, f.self, "next", f.arg)
                 /\ Call(t, 1, 0, Frame("next", self.observer, f.arg))
                 /\ UNCHANGED <<observers, ret>>
            ELSE TakeFinish(t, Log(hist, f.self, "next", f.arg), Stop)
       ELSE TakeFinish(t, hist, ret[t])
    /\ UNCHANGED <<program, terminals>>

TakeCompleted(t) ==
    /\ AtObserver(t, "completed", "Take")
    /\ LET f == Top(t) IN
       IF f.pc = 0
       THEN /\ hist' = Log(hist, f.self, "completed", 0)
            /\ Call(t, 1, 0, Frame("completed", observers[f.self].observer, 0))
       ELSE /\ Return(t)
            /\ hist' = hist
    /\ UNCHANGED <<program, observers, ret, terminals>>

-----------------------------------------------------------------------------
(* The programs explored: what the caller builds and subscribes. *)
Subscription(source, consumer) == [source |-> source, consumer |-> consumer]

Ranges == {range(s, e) : s \in 0..MaxStart, e \in 0..MaxEnd}
Values == {value(v) : v \in 0..MaxStart}
Flattened ==
    {flat_map(range(0, e), f) : e \in 1..MaxEnd, f \in {"value_times10", "range_times10"}}
Bases == Ranges \cup Values \cup Flattened
TakeOf(S) == {take(s, n) : s \in S, n \in 0..MaxTake}
MapOf(S) == {map(s, f) : s \in S, f \in {"add5", "double"}}
Sources == Bases \cup TakeOf(Bases) \cup {MainPipeline}

\* consumer 0 is the AnonymousObserver, consumer k > 0 stops at its k-th item
Consumers == 0..MaxStopAfter

\* a source subscribed, then subscribed again, or a take or a map of it subscribed
Pairs ==
    {<<s, s>> : s \in Sources}
        \cup UNION {{<<s, q>> : q \in TakeOf({s})} : s \in Bases}
        \cup UNION {{<<s, q>> : q \in MapOf({s})} : s \in Sources}

SequentialPrograms ==
    {<<Subscription(p[1], c), Subscription(p[2], c)>> : p \in Pairs, c \in Consumers}

\* two inner streams of InnerLen items, each delivered from a thread of its own,
\* while the subscribing thread goes on to MergeAllObserver::completed
Threaded ==
    {flat_map(range(0, 2), "spawned_range"),
     take(flat_map(range(0, 2), "spawned_range"), MaxTake)}

\* consumer -1 is the counting observer
ThreadedPrograms ==
    {<<Subscription(s, c)>> : s \in Threaded, c \in Consumers}
        \cup {<<Subscription(flat_map(range(0, 2), "spawned_range"), -1)>>}

\* a stream of streams of streams flattened twice: a call made under the lock
\* of the first merge_all takes the lock of the second
\* (the first stream of streams runs on a thread of its own, the second on the
\* subscribing thread with its inner stream on a thread of its own)
Nested == merge_all(merge_all(map(range(0, 2), "nested_streams")))

NestedPrograms == {<<Subscription(Nested, 0)>>}

Programs == SequentialPrograms \cup ThreadedPrograms \cup NestedPrograms

Init ==
    /\ program \in Programs
    /\ observers = <<>>
    /\ hist = <<>>
    /\ stacks = << <<Frame("main", 0, 0)>> >>
    /\ ret = <<Continue>>
    /\ terminals = <<>>

Next ==
    \/ \E t \in Threads : Main(t)
    \/ \E t \in Threads : RangeSubscribe(t)
    \/ \E t \in Threads : ValueSubscribe(t)
    \/ \E t \in Threads : MapSubscribe(t)
    \/ \E t \in Threads : TakeSubscribe(t)
    \/ \E t \in Threads : MergeAllSubscribe(t)
    \/ \E t \in Threads : SpawnedSubscribe(t)
    \/ \E t \in Threads : AnonymousNext(t)
    \/ \E t \in Threads : AnonymousCompleted(t)
    \/ \E t \in Threads : StopAfterNext(t)
    \/ \E t \in Threads : StopAfterCompleted(t)
    \/ \E t \in Threads : CountingNext(t)
    \/ \E t \in Threads : CountingCompleted(t)
    \/ \E t \in Threads : MapNext(t)
    \/ \E t \in Threads : MapCompleted(t)
    \/ \E t \in Threads : SharedNext(t)
    \/ \E t \in Threads : SharedCompleted(t)
    \/ \E t \in Threads : MergeAllNext(t)
    \/ \E t \in Threads : MergeAllCompleted(t)
    \/ \E t \in Threads : TakeNext(t)
    \/ \E t \in Threads : TakeCompleted(t)

Spec == Init /\ [][Next]_vars

-----------------------------------------------------------------------------
(* Reading the histories. *)
IsNext(x) == x.e = "next"
IsCompleted(x) == x.e = "completed"
IsCall(x) == x.e \in {"next", "completed"}

\* the next and completed calls an observer received, in order
Calls(h) == SelectSeq(h, IsCall)
\* the items an observer received through next, in order
Items(h) == LET n == SelectSeq(h, IsNext) IN [i \in 1..Len(n) |-> n[i].v]
NextCount(h) == Len(SelectSeq(h, IsNext))
CompletedCount(h) == Len(SelectSeq(h, IsCompleted))

IsPrefix(a, b) == Len(a) <= Len(b) /\ \A i \in 1..Len(a) : a[i] = b[i]

\* some next call was logged after entry i
NextAfter(h, i) == \E j \in (i + 1)..Len(h) : h[j].e = "next"
NextAfterCompleted(h) == \E i \in 1..Len(h) : h[i].e = "completed" /\ NextAfter(h, i)
NextAfterStop(h) == \E i \in 1..Len(h) : h[i].e = Stop /\ NextAfter(h, i)
ReturnedStop(h) == \E i \in 1..Len(h) : h[i].e = Stop
CompletedAfterStop(h) ==
    Cardinality({j \in 1..Len(h) :
        h[j].e = "completed" /\ \E i \in 1..(j - 1) : h[i].e = Stop})

\* every thread has run to the end: all subscriptions are over
Done == \A t \in Threads : ~Running(t)

Subscribed(k) == k \in DOMAIN terminals
TerminalHist(k) == hist[terminals[k]]
IsObserver(id) == observers[id].kind # "Mutex"

\* subscribe call k has returned to main
Returned(k) == Subscribed(k) /\ (Len(terminals) > k \/ Len(stacks[1]) <= 1)
\* subscription k is over: its subscribe returned and no spawned thread still runs
Finished(k) == Returned(k) /\ \A t \in Threads \ {1} : ~Running(t)

Collecting(k) == program[k].consumer = 0

-----------------------------------------------------------------------------
(* C1: for every subscription, the terminal observer's completed is called *)
(* at most once and no next call reaches it after completed.               *)
C1_CompletedOnceAndAbsorbing ==
    \A k \in DOMAIN terminals :
        /\ CompletedCount(TerminalHist(k)) <= 1
        /\ ~NextAfterCompleted(TerminalHist(k))

(* C2: subscribing range(0,10).flat_map(|a| value(a*10)).take(3).map(|a| a+5) *)
(* to the AnonymousObserver delivers to its next exactly 5, 15, 25 in that    *)
(* order: never anything outside that sequence, and all of it by the end.     *)
C2_MainYields ==
    \A k \in DOMAIN terminals :
        (program[k].source = MainPipeline /\ Collecting(k)) =>
            /\ IsPrefix(Items(TerminalHist(k)), <<5, 15, 25>>)
            /\ Finished(k) => Items(TerminalHist(k)) = <<5, 15, 25>>

C2_Witness ==
    \E k \in DOMAIN terminals :
        /\ program[k].source = MainPipeline
        /\ Collecting(k)
        /\ Finished(k)
        /\ Items(TerminalHist(k)) = <<5, 15, 25>>

(* C3: once an observer of the chain has returned Stop from next, no further *)
(* next call reaches it and exactly one completed call follows.              *)
C3_StopEndsNext ==
    \A id \in DOMAIN observers :
        IsObserver(id) =>
            /\ ~NextAfterStop(hist[id])
            /\ CompletedAfterStop(hist[id]) <= 1
            /\ (Done /\ ReturnedStop(hist[id])) => CompletedAfterStop(hist[id]) = 1

RangeExpected(start, end) ==
    [i \in 1..(end - start) |-> [e |-> "next", v |-> start + i - 1]]
        \o <<[e |-> "completed", v |-> 0]>>

IsRange(k) == program[k].source.op = "range"

(* C4: Range(start, end) with start < end, subscribed by an observer that   *)
(* always returns Continue, delivers next(start), ..., next(end - 1) in     *)
(* that order and then exactly one completed: nothing else on the way, and  *)
(* all of it by the end.                                                    *)
C4_RangeYields ==
    \A k \in DOMAIN terminals :
        (IsRange(k) /\ program[k].source.start < program[k].source.end /\ Collecting(k)) =>
            LET expected == RangeExpected(program[k].source.start, program[k].source.end) IN
            /\ IsPrefix(Calls(TerminalHist(k)), expected)
            /\ Finished(k) => Calls(TerminalHist(k)) = expected

C4_Witness ==
    \E k \in DOMAIN terminals :
        /\ IsRange(k) /\ Collecting(k) /\ Finished(k)
        /\ program[k].source.end - program[k].source.start >= 2
        /\ NextCount(TerminalHist(k)) = program[k].source.end - program[k].source.start
        /\ CompletedCount(TerminalHist(k)) = 1

(* C5: Range(start, end) with start >= end performs zero next calls on the *)
(* observer and calls completed exactly once.                              *)
C5_EmptyRangeEmitsNothing ==
    \A k \in DOMAIN terminals :
        (IsRange(k) /\ program[k].source.start >= program[k].source.end) =>
            /\ NextCount(TerminalHist(k)) = 0
            /\ Finished(k) => CompletedCount(TerminalHist(k)) = 1

IsTakeOfFirst ==
    /\ Len(program) = 2
    /\ program[2].source.op = "take"
    /\ program[2].source.source = program[1].source

(* C6: for Take(n) applied to a producer that delivers m >= n items to a    *)
(* collecting observer, the wrapped observer receives exactly the first n   *)
(* items of the source, in source order, and no others; for n = 0 it        *)
(* receives no item.  Subscription 1 is the source alone, subscription 2    *)
(* the take of it.                                                          *)
C6_TakeYieldsFirstN ==
    (IsTakeOfFirst /\ Collecting(1) /\ Subscribed(2)) =>
        LET src == Items(TerminalHist(1))
            n == program[2].source.count
            got == Items(TerminalHist(2)) IN
        Len(src) >= n =>
            /\ IsPrefix(got, SubSeq(src, 1, n))
            /\ Finished(2) => got = SubSeq(src, 1, n)

C6_Witness ==
    /\ IsTakeOfFirst /\ Collecting(1) /\ Finished(2)
    /\ program[1].source.op = "merge_all"
    /\ program[2].source.count >= 1
    /\ Len(Items(TerminalHist(1))) > program[2].source.count
    /\ Items(TerminalHist(2)) = SubSeq(Items(TerminalHist(1)), 1, program[2].source.count)

SubscriptionOf(id) ==
    CHOOSE k \in DOMAIN terminals :
        terminals[k] <= id /\ (k = Len(terminals) \/ terminals[k + 1] > id)

(* C7: for Take(n) subscribed by a collecting observer, once the            *)
(* TakeObserver has returned Stop (the n-th item was forwarded, or n = 0),  *)
(* no further next call is made into the TakeObserver or into any observer  *)
(* upstream of it in that subscription: the source, the root producer and   *)
(* the upstream transforms handle no later item.                            *)
C7_NothingConsumedBeyondNth ==
    [][\A id \in DOMAIN observers :
          (/\ observers[id].kind = "Take"
           /\ Collecting(SubscriptionOf(id))
           /\ ReturnedStop(hist[id])) =>
              \A u \in DOMAIN hist :
                  (u >= id /\ SubscriptionOf(u) = SubscriptionOf(id)) =>
                      NextCount(hist'[u]) = NextCount(hist[u])]_vars

IsMapOfFirst ==
    /\ Len(program) = 2
    /\ program[2].source.op = "map"
    /\ program[2].source.source = program[1].source

MappedItems(f, items) == [i \in 1..Len(items) |-> Apply(f, items[i])]

(* C8: the items the consumer receives from S.map(f) are f applied          *)
(* element-wise to the items it receives from S, same length and order,     *)
(* and the consumer's completed is called once for each completed the       *)
(* MapObserver receives from the source.  Subscription 1 is S alone,        *)
(* subscription 2 is S.map(f), both with the same kind of consumer.         *)
C8_MapElementwise ==
    (IsMapOfFirst /\ Subscribed(2)) =>
        LET mapped == MappedItems(program[2].source.f, Items(TerminalHist(1)))
            got == Items(TerminalHist(2)) IN
        /\ IsPrefix(got, mapped)
        /\ Finished(2) =>
            /\ got = mapped
            /\ CompletedCount(TerminalHist(2)) = CompletedCount(hist[terminals[2] + 1])
            /\ CompletedCount(TerminalHist(2)) = CompletedCount(TerminalHist(1))

C8_Witness ==
    /\ IsMapOfFirst /\ Finished(2)
    /\ Len(Items(TerminalHist(1))) >= 2
    /\ Items(TerminalHist(2)) = MappedItems(program[2].source.f, Items(TerminalHist(1)))
    /\ Items(TerminalHist(2)) # Items(TerminalHist(1))

IsTwice == Len(program) = 2 /\ program[2].source = program[1].source

(* C9: the same producer subscribed twice in a row, each time with a fresh  *)
(* observer, gives the second observer the very calls, with the very        *)
(* directives, that the first one got; a Take(n) producer starts each       *)
(* subscription with a budget of n.                                         *)
C9_ResubscribeIdentical ==
    (IsTwice /\ Subscribed(2)) =>
        /\ IsPrefix(TerminalHist(2), TerminalHist(1))
        /\ Finished(2) => TerminalHist(2) = TerminalHist(1)
        /\ (/\ program[2].source.op = "take"
            /\ terminals[2] + 1 \in DOMAIN observers
            /\ hist[terminals[2] + 1] = <<>>) =>
               observers[terminals[2] + 1].remaining = program[2].source.count

C9_Witness ==
    /\ IsTwice /\ Finished(2)
    /\ program[1].source.op = "take"
    /\ program[1].source.count >= 1
    /\ NextCount(TerminalHist(1)) = program[1].source.count
    /\ TerminalHist(2) = TerminalHist(1)

Executing(t, id) ==
    \E i \in 1..Len(stacks[t]) :
        stacks[t][i].fn \in {"next", "completed"} /\ stacks[t][i].self = id

\* thread t is blocked in lock() on mutex m
Waiting(t, m) ==
    /\ Running(t)
    /\ Top(t).fn \in {"next", "completed"}
    /\ Top(t).pc = 0
    /\ \/ observers[Top(t).self].kind = "Shared"
       \/ observers[Top(t).self].kind = "MergeAll" /\ Top(t).fn = "completed"
    /\ observers[Top(t).self].observer = m

IsMutex(m) == observers[m].kind = "Mutex"

(* C10: for every mutex-wrapped consumer, at most one thread at a time is   *)
(* inside a next or completed call on it, whichever SharedObserver handle   *)
(* or MergeAllObserver::completed made the call.                            *)
C10_OneCallAtATime ==
    \A m \in DOMAIN observers :
        IsMutex(m) =>
            Cardinality({t \in Threads : Executing(t, observers[m].observer)}) <= 1

C10_Witness ==
    \E m \in DOMAIN observers :
        /\ IsMutex(m)
        /\ \E t1 \in Threads : t1 # 1 /\ Executing(t1, observers[m].observer)
        /\ Waiting(1, m)
        /\ \E t2 \in Threads : t2 # 1 /\ Waiting(t2, m)

\* subscription k is a flat_map whose closure hands each inner range to a thread
IsThreadedFlatMap(k) ==
    /\ program[k].source.op = "merge_all"
    /\ program[k].source.source.op = "map"
    /\ program[k].source.source.f = "spawned_range"

\* the items the inner ranges of such a flat_map emit, N streams of M items
ThreadedItems(k) ==
    {a * 10 + i : a \in program[k].source.source.source.start
                          ..(program[k].source.source.source.end - 1),
                  i \in 0..(InnerLen - 1)}

SeqToSet(q) == {q[i] : i \in DOMAIN q}

(* C11: N inner streams of M items each, delivered from N threads into one *)
(* MergeAll whose consumer always returns Continue and increments a        *)
(* counter inside next: the counter never exceeds N*M and, once all inner  *)
(* streams have finished, equals N*M, every item having been delivered     *)
(* exactly once.                                                           *)
C11_CountIsNTimesM ==
    \A k \in DOMAIN terminals :
        (IsThreadedFlatMap(k) /\ program[k].consumer < 0) =>
            LET total == Cardinality(ThreadedItems(k))
                counter == observers[terminals[k]].counter
                items == Items(TerminalHist(k)) IN
            /\ counter <= total
            \* every next call that has returned has been counted
            /\ counter = Len(TerminalHist(k)) - Len(Calls(TerminalHist(k)))
            /\ SeqToSet(items) \subseteq ThreadedItems(k)
            /\ \A i, j \in DOMAIN items : items[i] = items[j] => i = j
            /\ Finished(k) =>
                /\ counter = total
                /\ SeqToSet(items) = ThreadedItems(k)

C11_Witness ==
    \E k \in DOMAIN terminals :
        /\ IsThreadedFlatMap(k) /\ program[k].consumer < 0 /\ Finished(k)
        /\ observers[terminals[k]].counter = 2 * InnerLen
        \* the two streams were interleaved at the consumer
        /\ \E i \in 1..(Len(Items(TerminalHist(k))) - 2) :
              LET items == Items(TerminalHist(k)) IN
              /\ items[i] \div 10 # items[i + 1] \div 10
              /\ items[i + 1] \div 10 # items[i + 2] \div 10

\* the program subscribes pipelines built from the library's own producers only
LibraryOnly == program \in SequentialPrograms

(* C12: in a pipeline built from the library's producers and combinators,  *)
(* if the terminal consumer returns Stop on the first item it receives,    *)
(* the whole chain stops for that subscription: from then on no            *)
(* observer of the subscription receives a next call (the root producer    *)
(* emits nothing more, the terminal consumer receives no further item),    *)
(* and the terminal consumer receives exactly one completed call.          *)
C12_StopOnFirstStopsChain ==
    [][\A k \in DOMAIN terminals :
          (LibraryOnly /\ program[k].consumer = 1 /\ ReturnedStop(TerminalHist(k))) =>
              /\ \A u \in DOMAIN hist :
                     SubscriptionOf(u) = k => NextCount(hist'[u]) = NextCount(hist[u])
              /\ CompletedCount(hist'[terminals[k]]) <= 1
              /\ Finished(k) => CompletedCount(TerminalHist(k)) = 1]_vars

-----------------------------------------------------------------------------
(* What the threads hold. *)

\* frame i of thread t is a call that took the lock of mutex m and has not returned
GuardFrame(t, i, m) ==
    LET f == stacks[t][i] IN
    /\ f.fn \in {"next", "completed"}
    /\ f.pc = 1
    /\ \/ observers[f.self].kind = "Shared"
       \/ observers[f.self].kind = "MergeAll" /\ f.fn = "completed"
    /\ observers[f.self].observer = m

Guards(t, m) == {i \in 1..Len(stacks[t]) : GuardFrame(t, i, m)}

\* the lock of m is held by t exactly while one call of t on the consumer is
\* under way: the frame above the locking call, if any, is that call
LockDiscipline ==
    \A m \in DOMAIN observers :
        IsMutex(m) =>
            \A t \in Threads :
                /\ (observers[m].holder = t) <=> (Guards(t, m) # {})
                /\ Cardinality(Guards(t, m)) <= 1
                /\ \A i \in Guards(t, m) :
                       i < Len(stacks[t]) =>
                           /\ stacks[t][i + 1].fn = stacks[t][i].fn
                           /\ stacks[t][i + 1].self = observers[m].observer

WaitingAny(t) ==
    /\ t \in Threads
    /\ \E m \in DOMAIN observers : IsMutex(m) /\ Waiting(t, m)

MaxThreads == 3

\* the programs in which threads contend for a lock, under a scheduler that
\* lets some thread step whenever one can
InitThreads ==
    /\ Init
    /\ program \in ThreadedPrograms \cup NestedPrograms

SpecThreads == InitThreads /\ [][Next]_vars /\ WF_vars(Next)

(* C13: the lock of the shared consumer never deadlocks: in every          *)
(* interleaving, nested merge_all included, a thread holds a mutex exactly *)
(* for the one next/completed call it made through it (so the lock is     *)
(* free again before its caller makes the following call), and as long as  *)
(* some thread has not finished, some thread can step: no thread waits     *)
(* for a lock that will never be released.                                 *)
C13_LockNeverDeadlocks == LockDiscipline /\ (Done \/ ENABLED Next)

\* under SpecThreads: every thread waiting for a lock eventually acquires it
C13_EventuallyAcquires == \A t \in 1..MaxThreads : WaitingAny(t) ~> ~WaitingAny(t)

\* a thread holds the lock of the first merge_all and waits for the lock of the
\* second, which another thread holds, while a third waits for the first lock
C13_Witness ==
    \E m1, m2 \in DOMAIN observers :
        /\ IsMutex(m1) /\ IsMutex(m2) /\ m1 # m2
        /\ \E t1, t2, t3 \in Threads :
              /\ t1 # t2 /\ t3 # t1 /\ t3 # t2
              /\ Guards(t1, m1) # {} /\ Waiting(t1, m2)
              /\ Guards(t2, m2) # {}
              /\ Waiting(t3, m1)

\* the frames of RangeObservable::subscribe, as <<thread, depth>>
RangeFrames ==
    {p \in UNION {{<<t, i>> : i \in 1..Len(stacks[t])} : t \in Threads} :
        /\ stacks[p[1]][p[2]].fn = "subscribe"
        /\ stacks[p[1]][p[2]].self.op = "range"}

\* frame p runs: every call it made has returned
Resumed(p) == p[2] = Len(stacks[p[1]])

Consecutive(start, n) == [i \in 1..n |-> start + i - 1]

(* C14: for Range(start, end) with start < end, once the observer has      *)
(* returned Stop from the next call for item k, Range makes no further     *)
(* next call (the items delivered are start..k and nothing after), its     *)
(* state is end when it goes on to completed, and completed is called      *)
(* exactly once, as the call that follows the Stop.                        *)
C14_RangeStopsAtStop ==
    \A p \in RangeFrames :
        LET f == stacks[p[1]][p[2]]
            h == hist[f.arg] IN
        (f.self.start < f.self.end /\ ReturnedStop(h)) =>
            /\ ~NextAfterStop(h)
            /\ Items(h) = Consecutive(f.self.start, NextCount(h))
            /\ CompletedCount(h) <= 1
            /\ f.pc = 2 => f.loc = f.self.end
            /\ (f.pc = 2 /\ Resumed(p)) =>
                  /\ CompletedCount(h) = 1
                  /\ h[Len(h)].e = "completed" /\ h[Len(h) - 1].e = Stop

\* a Range stopped before its last item has called completed
C14_Witness ==
    \E p \in RangeFrames :
        LET f == stacks[p[1]][p[2]]
            h == hist[f.arg] IN
        /\ f.pc = 2 /\ Resumed(p) /\ ReturnedStop(h)
        /\ NextCount(h) >= 1
        /\ NextCount(h) < f.self.end - f.self.start
        /\ CompletedCount(h) = 1

IsMergeAll(id) == observers[id].kind = "MergeAll"
IsShared(id) == observers[id].kind = "Shared"
\* the SharedObserver handles created by MergeAllObserver id
Handles(id) ==
    {s \in DOMAIN observers : IsShared(s) /\ observers[s].observer = observers[id].observer}

\* observer id is the MapObserver of a flat_map: it hands its items to a MergeAllObserver
FeedsMergeAll(id) == observers[id].kind = "Map" /\ IsMergeAll(observers[id].observer)

(* C15: MergeAllObserver::next returns Continue for every inner producer,  *)
(* whatever the shared consumer returned. So every inner producer the      *)
(* outer source emits is subscribed to a handle of the shared consumer, a  *)
(* Range feeding a MergeAllObserver emits all of its items even after the  *)
(* consumer returned Stop, and a Stop ends only the inner stream it was    *)
(* returned to: that handle receives no further next.                      *)
C15_MergeAllNextContinues ==
    /\ \A id \in DOMAIN observers :
          IsMergeAll(id) =>
              /\ ~ReturnedStop(hist[id])
              /\ Cardinality(Handles(id)) = NextCount(hist[id])
    /\ \A s \in DOMAIN observers : IsShared(s) => ~NextAfterStop(hist[s])
    /\ \A p \in RangeFrames :
          LET f == stacks[p[1]][p[2]] IN
          (FeedsMergeAll(f.arg) /\ f.self.start < f.self.end /\ f.pc = 2) =>
              /\ Items(hist[f.arg]) = Consecutive(f.self.start, f.self.end - f.self.start)
              /\ NextCount(hist[observers[f.arg].observer]) = f.self.end - f.self.start

\* the consumer returned Stop during the first inner stream; the outer Range
\* has emitted all its producers since, and a later one delivered to the consumer
C15_Witness ==
    \E p \in RangeFrames :
        LET f == stacks[p[1]][p[2]]
            id == observers[f.arg].observer IN
        /\ FeedsMergeAll(f.arg) /\ f.pc = 2
        /\ NextCount(hist[id]) >= 2
        /\ \E s \in Handles(id) :
              /\ ReturnedStop(hist[s])
              /\ \E s2 \in Handles(id) : s2 > s /\ NextCount(hist[s2]) >= 1
        /\ NextAfterStop(hist[observers[observers[id].observer].observer])

\* the consumer behind the mutex of MergeAllObserver id
Downstream(id) == observers[observers[id].observer].observer

\* the items of q that are items of stream, in the order of q
Of(q, stream) == SelectSeq(q, LAMBDA v : v \in SeqToSet(stream))

(* C16: in a MergeAll subscription, the items of each inner stream reach   *)
(* the downstream consumer in the order in which that inner stream emitted *)
(* them, in every interleaving with the other inner streams: what the      *)
(* consumer has received of a stream is what the stream has emitted, but   *)
(* for the one item on its way, and all of it once every thread is done.   *)
C16_InnerOrderPreserved ==
    \A id \in DOMAIN observers :
        IsMergeAll(id) =>
            \A s \in Handles(id) :
                LET emitted == Items(hist[s])
                    received == Of(Items(hist[Downstream(id)]), emitted) IN
                /\ IsPrefix(received, emitted)
                /\ Len(received) >= Len(emitted) - 1
                /\ Done => received = emitted

\* two inner streams on threads of their own, both delivered in full, the
\* later one first and the earlier one in between
C16_Witness ==
    \E id \in DOMAIN observers :
        /\ IsMergeAll(id) /\ Done
        /\ \E s1, s2 \in Handles(id) :
              LET got == Items(hist[Downstream(id)]) IN
              /\ s1 < s2
              /\ Len(Items(hist[s1])) >= 2 /\ Len(Items(hist[s2])) >= 2
              /\ got[1] = Items(hist[s2])[1]
              /\ got[2] = Items(hist[s1])[1]
              /\ got[3] = Items(hist[s2])[2]

\* thread t is about to run MergeAllObserver::completed on observer id
AtOuterCompleted(t, id) ==
    /\ AtObserver(t, "completed", "MergeAll")
    /\ Top(t).self = id /\ Top(t).pc = 0

(* C17: MergeAllObserver::completed calls the downstream consumer's        *)
(* completed as soon as the outer source has finished enumerating: once    *)
(* the subscribing thread has reached it, it goes ahead whenever the lock  *)
(* is free, whether or not inner streams are still running on threads of   *)
(* their own.                                                              *)
C17_OuterCompletedDoesNotWait ==
    \A t \in Threads : \A id \in DOMAIN observers :
        (AtOuterCompleted(t, id) /\ LockFree(observers[id].observer)) =>
            ENABLED MergeAllCompleted(t)

\* the consumer has received the completed of the outer stream, no inner stream
\* having completed, and after it a next from an inner stream that still runs
C17_Witness ==
    \E id \in DOMAIN observers :
        /\ IsMergeAll(id)
        /\ CompletedCount(hist[id]) = 1
        /\ ~Running(1)
        /\ \A s \in Handles(id) : CompletedCount(hist[s]) = 0
        /\ CompletedCount(hist[Downstream(id)]) = 1
        /\ NextAfterCompleted(hist[Downstream(id)])
        /\ \E u \in Threads \ {1} : Running(u)

Combinators == {"Map", "Shared", "Take", "MergeAll"}

\* thread t stands in a combinator's next, the call it made downstream has returned
InCombinatorNext(t) ==
    /\ At(t, "next") /\ Top(t).pc = 1
    /\ observers[Top(t).self].kind \in Combinators

(* C18: every combinator observer (Map, Shared, Take, MergeAll) returns    *)
(* from next the directive its downstream consumer returned for that call, *)
(* except that TakeObserver returns Stop when its budget is exhausted; no  *)
(* combinator turns a downstream Stop into Continue.                       *)
C18_DirectivePassesThrough ==
    [][\A t \in Threads :
          (LibraryOnly /\ InCombinatorNext(t) /\ stacks'[t] = Pop(stacks[t])) =>
              \/ ret'[t] = ret[t]
              \/ /\ observers[Top(t).self].kind = "Take"
                 /\ observers'[Top(t).self].remaining = 0
                 /\ ret'[t] = Stop]_vars

(* C19: for a MergeAll subscription driven synchronously whose outer       *)
(* source emits k inner producers and then completes, the completed of     *)
(* each inner producer is forwarded through its SharedObserver to the      *)
(* downstream consumer: by the time the j-th producer is subscribed the    *)
(* consumer has had j - 1 completed calls, and at the end it has had       *)
(* exactly k + 1, one per inner stream plus one for the outer stream.      *)
C19_CompletedKPlusOneTimes ==
    \A id \in DOMAIN observers :
        (IsMergeAll(id) /\ LibraryOnly) =>
            /\ CompletedCount(hist[Downstream(id)]) >= Cardinality(Handles(id)) - 1
            /\ CompletedCount(hist[Downstream(id)]) <= NextCount(hist[id]) + 1
            /\ Done =>
                  /\ CompletedCount(hist[id]) = 1
                  /\ \A s \in Handles(id) : CompletedCount(hist[s]) = 1
                  /\ CompletedCount(hist[Downstream(id)]) = NextCount(hist[id]) + 1

\* three inner producers, four completed calls at the consumer, the first of
\* them before the item of the second producer
C19_Witness ==
    \E id \in DOMAIN observers :
        /\ IsMergeAll(id) /\ LibraryOnly /\ Done
        /\ NextCount(hist[id]) = 3
        /\ CompletedCount(hist[Downstream(id)]) = 4
        /\ NextAfterCompleted(hist[Downstream(id)])

IsTake(id) == observers[id].kind = "Take"

\* thread t takes a step of TakeObserver::next on observer id
InTakeNext(t, id) ==
    /\ AtObserver(t, "next", "Take") /\ Top(t).self = id
    /\ stacks'[t] # stacks[t]

(* C20: across any sequence of next calls on a TakeObserver (calls after   *)
(* it returned Stop and a budget of 0 included), remaining never           *)
(* increases and never goes below 0: remaining - 1 is computed only with   *)
(* remaining > 0. Once remaining is 0 it stays 0, and a next call then     *)
(* forwards nothing to the real consumer and returns Stop.                 *)
C20_RemainingNeverUnderflows ==
    [][\A id \in DOMAIN observers :
          IsTake(id) =>
              /\ observers[id].remaining >= 0
              /\ observers'[id].remaining >= 0
              /\ observers'[id].remaining <= observers[id].remaining
              /\ \A t \in Threads :
                    InTakeNext(t, id) =>
                        /\ (Top(t).pc = 1 /\ ret[t] = Continue) =>
                              /\ observers[id].remaining > 0
                              /\ observers'[id].remaining = observers[id].remaining - 1
                        /\ observers[id].remaining = 0 =>
                              /\ stacks'[t] = Pop(stacks[t])
                              /\ ret'[t] = Stop
                              /\ hist'[observers[id].observer] = hist[observers[id].observer]]_vars

\* a TakeObserver whose budget is used up has been called again after it
\* returned Stop, and has answered Stop again without forwarding
C20_Witness ==
    \E id \in DOMAIN observers :
        /\ IsTake(id)
        /\ observers[id].remaining = 0
        /\ NextAfterStop(hist[id])
        /\ Len(hist[id]) > 0 /\ hist[id][Len(hist[id])].e = Stop
        /\ NextCount(hist[observers[id].observer]) >= 1
        /\ NextCount(hist[observers[id].observer]) < NextCount(hist[id])

====
